---------------------------- MODULE Spec2Model ----------------------------
(***************************************************************************)
(* Model of src/app.py: the WNBA revenue dashboard.                        *)
(*                                                                         *)
(* The script is a Streamlit page: it is executed top to bottom once when  *)
(* the page opens and again, in full, each time a sidebar control changes. *)
(* One script run draws the static matplotlib chart, reads the controls,   *)
(* filters the module-level table by the year range, builds the plotly     *)
(* chart and builds the raw-data table.                                    *)
(*                                                                         *)
(* Numbers.  pandas/numpy floats are modelled as exact rationals in lowest *)
(* terms plus the IEEE special values inf, -inf and nan that a float       *)
(* division by zero produces; rounding error of finite float arithmetic is *)
(* not modelled.                                                           *)
(***************************************************************************)
EXTENDS Integers, Sequences, FiniteSets, TLC

VARIABLES
    data,             \* the module-level DataFrame (app.py:21)
    year_range,       \* the slider's value <<lo, hi>> (app.py:364)
    show_revenue,     \* checkbox (app.py:373)
    show_share,       \* checkbox (app.py:374)
    show_actual,      \* checkbox (app.py:375)
    pct_mode,         \* toggle (app.py:377)
    static_fig,       \* the figure of the last create_static_chart() (app.py:347)
    filtered,         \* the filtered DataFrame of the last run (app.py:393)
    interactive_fig,  \* the figure of the last create_interactive_chart (app.py:395)
    display_df,       \* the raw-data table of the last run (app.py:406)
    pc,               \* "input": the script has not run yet; "served": it has
                      \* run once; "rerun": a control change has rerun it
    first_render      \* history variable: the controls and the chart of the
                      \* run that first served the page

vars == <<data, year_range, show_revenue, show_share, show_actual, pct_mode,
          static_fig, filtered, interactive_fig, display_df, pc, first_render>>

----------------------------------------------------------------------------
(* Float arithmetic *)

Abs(a) == IF a < 0 THEN -a ELSE a

RECURSIVE Gcd(_, _)
Gcd(a, b) == IF b = 0 THEN a ELSE Gcd(b, a % b)

\* The finite value n/d (d # 0), in lowest terms with a positive denominator.
Frac(n, d) ==
    LET s == IF d < 0 THEN -1 ELSE 1
        g == Gcd(Abs(n), Abs(d))
    IN  [k |-> "fin", n |-> (s * n) \div g, d |-> (s * d) \div g]

Whole(v) == [k |-> "fin", n |-> v, d |-> 1]
Inf    == [k |-> "inf", n |-> 1, d |-> 0]
NegInf == [k |-> "-inf", n |-> -1, d |-> 0]
NaN    == [k |-> "nan", n |-> 0, d |-> 0]

IsFinite(q) == q.k = "fin"

\* int64 / int64 of two pandas Series elements: a float; x/0 is inf, -inf or
\* nan (numpy raises no exception for it).
TrueDiv(a, b) ==
    IF b # 0 THEN Frac(a, b)
    ELSE IF a > 0 THEN Inf
    ELSE IF a < 0 THEN NegInf
    ELSE NaN

\* float * int (m > 0)
Times(q, m) == IF IsFinite(q) THEN Frac(q.n * m, q.d) ELSE q


\* Series.round(1): to one decimal, halves to the even neighbour (numpy);
\* inf and nan stay as they are.
Round1(q) ==
    IF ~IsFinite(q) THEN q
    ELSE LET t  == (q.n * 10) \div q.d        \* floor of 10*q
             r2 == 2 * ((q.n * 10) % q.d)     \* twice the remainder
             up == r2 > q.d \/ (r2 = q.d /\ t % 2 = 1)
         IN  Frac(IF up THEN t + 1 ELSE t, 10)

----------------------------------------------------------------------------
(* DataFrames: the column names in order and the rows in order, each row a *)
(* function from column name to value.                                     *)

Columns == <<"Year", "WNBA Revenue", "50% Share (NBA-equivalent)",
             "Actual Player Salary">>

Row(y, r, s, a) ==
    ("Year" :> y) @@ ("WNBA Revenue" :> r) @@
    ("50% Share (NBA-equivalent)" :> s) @@ ("Actual Player Salary" :> a)

DataFrame(cols, rows) == [columns |-> cols, rows |-> rows]

\* df[col]: the column as a sequence
Col(df, c) == [i \in 1..Len(df.rows) |-> df.rows[i][c]]

\* A typo in one cell: the 2019 salary entered as 120.
SampleDataTypo ==
    DataFrame(Columns,
      << Row(2019,  95,  45, 120), Row(2020, 120,  57, 12),
         Row(2021, 142,  68, 17), Row(2022, 170,  82, 18),
         Row(2023, 193,  93, 18), Row(2024, 220, 105, 18),
         Row(2025, 295, 143, 18) >>)

\* data = pd.DataFrame({...})
SampleData ==
    DataFrame(Columns,
      << Row(2019,  95,  45, 12), Row(2020, 120,  57, 12),
         Row(2021, 142,  68, 17), Row(2022, 170,  82, 18),
         Row(2023, 193,  93, 18), Row(2024, 220, 105, 18),
         Row(2025, 295, 143, 18) >>)

----------------------------------------------------------------------------
(* create_static_chart *)

\* Horizontal positions are counted in 1/600 of the distance between two
\* neighbouring categories (x = np.arange(...) puts them 1.0 apart), so that
\* every width, half width and offset of both charts is a whole number.
SlotUnits == 600

\* w_gray = 0.55, w_blue = 0.40, w_dark = 0.20, offset = -0.15
w_gray == 330
w_blue == 240
w_dark == 120
offset == -90

color_gray == "#d4d4d4"
color_blue == "#9cb4d8"
color_dark == "#4a6fa5"

\* np.arange(len(years))
arange(n) == [i \in 1..n |-> (i - 1) * SlotUnits]

\* The bars centred on the category positions shifted by the offset only.
BarCentresNoHalfWidth(x, w) == [i \in DOMAIN x |-> x[i] + offset]

\* x + offset + w / 2: the first argument of each ax.bar call
BarCentres(x, w) == [i \in DOMAIN x |-> x[i] + offset + w \div 2]

\* ax.bar(centres, heights, width=w, color=c, zorder=z) with matplotlib's
\* default align="center": one rectangle per row, from centre - w/2 to
\* centre + w/2.
ax_bar(series, centres, heights, w, c, z) ==
    [series  |-> series, color |-> c, zorder |-> z,
     patches |-> [i \in DOMAIN centres |->
                    [left   |-> centres[i] - w \div 2,
                     width  |-> w,
                     height |-> heights[i]]]]

\* bars_gray, bars_blue, bars_dark
StaticBars(d) ==
    LET x == arange(Len(Col(d, "Year")))
    IN  << ax_bar("revenue", BarCentres(x, w_gray), Col(d, "WNBA Revenue"),
                  w_gray, color_gray, 1),
           ax_bar("equalShare", BarCentres(x, w_blue),
                  Col(d, "50% Share (NBA-equivalent)"), w_blue, color_blue, 2),
           ax_bar("actual", BarCentres(x, w_dark),
                  Col(d, "Actual Player Salary"), w_dark, color_dark, 3) >>

\* ax.annotate("", xy=tip, xytext=start, arrowprops=dict(connectionstyle=
\* "arc3,rad=<rad>", color=...)).  points_at is the series the source comment
\* names as the arrow's target; tip and start are <<x in slot units, y>>;
\* rad is in tenths (rad=-0.3 is -3).
Annotate(points_at, tip, start, rad, c) ==
    [points_at |-> points_at, xy |-> tip, xytext |-> start, rad |-> rad,
     color |-> c]

\* The arrows with the last one left out.
StaticAnnotationsTwo ==
    << Annotate("revenue", <<3180, 230>>, <<3180, 290>>, -3, "#333333"),
       Annotate("equalShare", <<900, 75>>, <<1680, 195>>, 4, "#333333") >>

\* Annotation 1, 2, 3
StaticAnnotations ==
    << Annotate("revenue", <<3180, 230>>, <<3180, 290>>, -3, "#333333"),
       Annotate("equalShare", <<900, 75>>, <<1680, 195>>, 4, "#333333"),
       Annotate("actual", <<0, 20>>, <<300, 100>>, 3, "#b37540") >>

\* def create_static_chart(): reads the module-level table d
create_static_chart(d) ==
    [bars        |-> StaticBars(d),
     xticklabels |-> Col(d, "Year"),
     annotations |-> StaticAnnotations]

----------------------------------------------------------------------------
(* create_interactive_chart *)

\* fig = go.Figure()
go_Figure == [data |-> <<>>, layout |-> <<>>]

\* go.Bar(x=..., y=..., name=..., marker_color=..., hovertemplate=...)
go_Bar(x, y, name, marker_color, hovertemplate) ==
    [type |-> "bar", x |-> x, y |-> y, name |-> name,
     marker_color |-> marker_color, hovertemplate |-> hovertemplate]

add_trace(fig, trace) == [fig EXCEPT !.data = Append(@, trace)]

\* df[col] / df["WNBA Revenue"] * 100, element by element
PctOfRevenue(df, c) ==
    [i \in 1..Len(df.rows) |->
        Times(TrueDiv(df.rows[i][c], df.rows[i]["WNBA Revenue"]), 100)]

\* df[col] as the y values of a trace
AsY(df, c) == [i \in 1..Len(df.rows) |-> Whole(df.rows[i][c])]

RevenueTrace(df) ==
    go_Bar(Col(df, "Year"), AsY(df, "WNBA Revenue"), "WNBA Revenue",
           "#d4d4d4", "<b>%{x}</b><br>Revenue: $%{y}M<extra></extra>")

ShareTrace(df, pm) ==
    go_Bar(Col(df, "Year"),
           IF pm THEN PctOfRevenue(df, "50% Share (NBA-equivalent)")
                 ELSE AsY(df, "50% Share (NBA-equivalent)"),
           "50% Share (NBA-equivalent)", "#9cb4d8",
           IF pm THEN "<b>%{x}</b><br>50%% Share: %{y:.1f}%% of revenue<extra></extra>"
                 ELSE "<b>%{x}</b><br>50%% Share: $%{y}M<extra></extra>")

ActualTrace(df, pm) ==
    go_Bar(Col(df, "Year"),
           IF pm THEN PctOfRevenue(df, "Actual Player Salary")
                 ELSE AsY(df, "Actual Player Salary"),
           "Actual WNBA Player Salary", "#4a6fa5",
           IF pm THEN "<b>%{x}</b><br>Actual salary: %{y:.1f}%% of revenue<extra></extra>"
                 ELSE "<b>%{x}</b><br>Actual salary: $%{y}M<extra></extra>")

\* fig.update_layout(barmode="group", ..., annotations=[the source footer])
update_layout(fig, pm) ==
    [fig EXCEPT !.layout =
        [barmode     |-> "group",
         title       |-> "WNBA Annual Revenue vs. Player Compensation",
         yaxis       |-> [title      |-> IF pm THEN "Percentage of League Revenue"
                                              ELSE "Millions (USD)",
                          tickprefix |-> IF pm THEN "" ELSE "$",
                          ticksuffix |-> IF pm THEN "%" ELSE "M"],
         annotations |->
            << [text |-> "Sources: Bloomberg, Forbes, Sportico, Rodney Fort's Sports Business Data",
                xref |-> "paper", yref |-> "paper", showarrow |-> FALSE] >>]]

\* The sequence of add_trace calls on fig0, in program order.
AddTraces(fig0, df, p_show_revenue, p_show_share, p_show_actual, p_pct_mode) ==
    LET f1 == IF ~p_pct_mode /\ p_show_revenue
              THEN add_trace(fig0, RevenueTrace(df)) ELSE fig0
        f2 == IF p_show_share
              THEN add_trace(f1, ShareTrace(df, p_pct_mode)) ELSE f1
        f3 == IF p_show_actual
              THEN add_trace(f2, ActualTrace(df, p_pct_mode)) ELSE f2
    IN  f3

\* The salary trace added before the share trace.
create_interactive_chartActualFirst(df, p_show_revenue, p_show_share, p_show_actual, p_pct_mode) ==
    LET f1 == IF ~p_pct_mode /\ p_show_revenue
              THEN add_trace(go_Figure, RevenueTrace(df)) ELSE go_Figure
        f2 == IF p_show_actual
              THEN add_trace(f1, ActualTrace(df, p_pct_mode)) ELSE f1
        f3 == IF p_show_share
              THEN add_trace(f2, ShareTrace(df, p_pct_mode)) ELSE f2
    IN  update_layout(f3, p_pct_mode)

\* The revenue trace added in the percentage branch too.
create_interactive_chartRevenueInPct(df, p_show_revenue, p_show_share, p_show_actual, p_pct_mode) ==
    LET f1 == IF p_show_revenue
              THEN add_trace(go_Figure, RevenueTrace(df)) ELSE go_Figure
        f2 == IF p_show_share
              THEN add_trace(f1, ShareTrace(df, p_pct_mode)) ELSE f1
        f3 == IF p_show_actual
              THEN add_trace(f2, ActualTrace(df, p_pct_mode)) ELSE f2
    IN  update_layout(f3, p_pct_mode)

\* def create_interactive_chart(df, show_revenue, show_share, show_actual,
\*                              pct_mode)
create_interactive_chart(df, p_show_revenue, p_show_share, p_show_actual, p_pct_mode) ==
    update_layout(AddTraces(go_Figure, df, p_show_revenue, p_show_share,
                            p_show_actual, p_pct_mode), p_pct_mode)

\* Where plotly draws the bars of a figure whose layout says barmode="group"
\* and whose traces set neither width nor offset (plotly's defaults:
\* bargap 0.2, bargroupgap 0, categories 1 apart): the n traces share 0.8 of
\* the slot centred on x, side by side in trace order, each 0.8/n wide.  The
\* position of year y is counted from the first slider year, in slot units.
GroupedBar(fig, t, i) ==
    LET n == Len(fig.data)
        w == (8 * SlotUnits) \div (10 * n)
    IN  [left   |-> (fig.data[t].x[i] - 2019) * SlotUnits
                    - (4 * SlotUnits) \div 10 + (t - 1) * w,
         width  |-> w,
         height |-> fig.data[t].y[i]]

----------------------------------------------------------------------------
(* The script body below the controls *)

\* The two comparisons joined with | instead of &.
FilterYearsEither(d, yr) ==
    DataFrame(d.columns,
              SelectSeq(d.rows,
                        LAMBDA r : r["Year"] >= yr[1] \/ r["Year"] <= yr[2]))

\* The upper end of the range left out.
FilterYearsBelow(d, yr) ==
    DataFrame(d.columns,
              SelectSeq(d.rows,
                        LAMBDA r : r["Year"] >= yr[1] /\ r["Year"] < yr[2]))

\* data[(data["Year"] >= year_range[0]) & (data["Year"] <= year_range[1])]:
\* a new frame with the selected rows, in the order of d.
FilterYears(d, yr) ==
    DataFrame(d.columns,
              SelectSeq(d.rows,
                        LAMBDA r : r["Year"] >= yr[1] /\ r["Year"] <= yr[2]))

\* frame["Revenue Share %"] = (frame["Actual Player Salary"] /
\*                             frame["WNBA Revenue"] * 100).round(1)
WithRevenueShare(frame) ==
    DataFrame(IF \E j \in DOMAIN frame.columns :
                     frame.columns[j] = "Revenue Share %"
              THEN frame.columns
              ELSE Append(frame.columns, "Revenue Share %"),
              [i \in 1..Len(frame.rows) |->
                 ("Revenue Share %" :>
                     Round1(Times(TrueDiv(frame.rows[i]["Actual Player Salary"],
                                          frame.rows[i]["WNBA Revenue"]), 100)))
                 @@ frame.rows[i]])

\* The derived column written into the module-level table itself.
RunScriptInPlace(d, yr, sr, ss, sa, pm) ==
    LET f == FilterYears(d, yr)
    IN  [data            |-> WithRevenueShare(d),
         static_fig      |-> create_static_chart(d),
         filtered        |-> f,
         interactive_fig |-> create_interactive_chart(f, sr, ss, sa, pm),
         display_df      |-> WithRevenueShare(f)]

\* One execution of the script on the table d built at its top, with the
\* controls at yr, sr, ss, sa, pm: the value of every module-level name the
\* model keeps, at the end of the run.
RunScript(d, yr, sr, ss, sa, pm) ==
    LET f == FilterYears(d, yr)
    IN  [data            |-> d,
         static_fig      |-> create_static_chart(d),
         filtered        |-> f,
         interactive_fig |-> create_interactive_chart(f, sr, ss, sa, pm),
         display_df      |-> WithRevenueShare(f)]

\* st.slider("Year Range", min_value=2019, max_value=2025, value=(2019, 2025))
slider_min_value == 2019
slider_max_value == 2025

ViewOptions == <<year_range, show_revenue, show_share, show_actual, pct_mode>>

NoRender == [opts |-> <<<<0, 0>>, FALSE, FALSE, FALSE, FALSE>>, fig |-> go_Figure]

\* The traces of this run added to the figure the previous run left behind.
RanOnOldFigure(d, yr, sr, ss, sa, pm) ==
    LET out == RunScript(d, yr, sr, ss, sa, pm)
    IN  /\ year_range' = yr
        /\ show_revenue' = sr
        /\ show_share' = ss
        /\ show_actual' = sa
        /\ pct_mode' = pm
        /\ data' = out.data
        /\ static_fig' = out.static_fig
        /\ filtered' = out.filtered
        /\ interactive_fig' =
              update_layout(AddTraces(interactive_fig, out.filtered,
                                      sr, ss, sa, pm), pm)
        /\ display_df' = out.display_df
        /\ pc' = IF pc = "input" THEN "served" ELSE "rerun"

\* The state the script run leaves behind.
Ran(d, yr, sr, ss, sa, pm) ==
    LET out == RunScript(d, yr, sr, ss, sa, pm)
    IN  /\ year_range' = yr
        /\ show_revenue' = sr
        /\ show_share' = ss
        /\ show_actual' = sa
        /\ pct_mode' = pm
        /\ data' = out.data
        /\ static_fig' = out.static_fig
        /\ filtered' = out.filtered
        /\ interactive_fig' = out.interactive_fig
        /\ display_df' = out.display_df
        /\ pc' = IF pc = "input" THEN "served" ELSE "rerun"

\* The page as first served: the script has run once with every control at
\* its default.
Init ==
    LET out == RunScript(SampleData, <<slider_min_value, slider_max_value>>,
                         TRUE, TRUE, TRUE, FALSE)
    IN  /\ year_range = <<slider_min_value, slider_max_value>>
        /\ show_revenue = TRUE
        /\ show_share = TRUE
        /\ show_actual = TRUE
        /\ pct_mode = FALSE
        /\ data = out.data
        /\ static_fig = out.static_fig
        /\ filtered = out.filtered
        /\ interactive_fig = out.interactive_fig
        /\ display_df = out.display_df
        /\ pc = "served"
        /\ first_render =
              [opts |-> <<<<slider_min_value, slider_max_value>>,
                          TRUE, TRUE, TRUE, FALSE>>,
               fig  |-> out.interactive_fig]

\* The user drags one handle of the range slider (the handles do not cross);
\* the script reruns on the table it rebuilds at its top.
YearRangeChange ==
    /\ pc # "input"
    /\ \E y \in slider_min_value..slider_max_value :
          \/ /\ y # year_range[1]
             /\ y <= year_range[2]
             /\ Ran(SampleData, <<y, year_range[2]>>, show_revenue, show_share,
                    show_actual, pct_mode)
          \/ /\ y # year_range[2]
             /\ y >= year_range[1]
             /\ Ran(SampleData, <<year_range[1], y>>, show_revenue, show_share,
                    show_actual, pct_mode)
    /\ UNCHANGED first_render

ShowRevenueChange ==
    /\ pc # "input"
    /\ Ran(SampleData, year_range, ~show_revenue, show_share, show_actual,
           pct_mode)
    /\ UNCHANGED first_render

ShowShareChange ==
    /\ pc # "input"
    /\ Ran(SampleData, year_range, show_revenue, ~show_share, show_actual,
           pct_mode)
    /\ UNCHANGED first_render

ShowActualChange ==
    /\ pc # "input"
    /\ Ran(SampleData, year_range, show_revenue, show_share, ~show_actual,
           pct_mode)
    /\ UNCHANGED first_render

PctModeChange ==
    /\ pc # "input"
    /\ Ran(SampleData, year_range, show_revenue, show_share, show_actual,
           ~pct_mode)
    /\ UNCHANGED first_render

Next ==
    \/ YearRangeChange
    \/ ShowRevenueChange
    \/ ShowShareChange
    \/ ShowActualChange
    \/ PctModeChange

Spec == Init /\ [][Next]_vars

----------------------------------------------------------------------------
(* The script body as a function of its inputs: any table with the four    *)
(* columns, any pair of range ends, any setting of the four switches.      *)

MaxRows == 2

\* The value cells of a row: Revenue, 50% Share, Actual Salary.  A row with
\* revenue and values zero, one with zero revenue only, an ordinary one.
InputCells == { <<0, 0, 0>>, <<0, 5, 1>>, <<10, 5, 1>> }

\* The tables whose years are among the first n years from 2019, ascending
RECURSIVE InputRows(_)
InputRows(n) ==
    IF n = 0 THEN { <<>> }
    ELSE InputRows(n - 1) \cup
         { Append(t, Row(2018 + n, c[1], c[2], c[3])) :
             t \in InputRows(n - 1), c \in InputCells }

InputYears == 2018..(2019 + MaxRows)

NoStaticFig == [bars |-> <<>>, xticklabels |-> <<>>, annotations |-> <<>>]

InitInputs ==
    /\ pc = "input"
    /\ data \in { DataFrame(Columns, t) : t \in InputRows(MaxRows) }
    /\ year_range \in InputYears \X InputYears
    /\ show_revenue \in BOOLEAN
    /\ show_share \in BOOLEAN
    /\ show_actual \in BOOLEAN
    /\ pct_mode \in BOOLEAN
    /\ static_fig = NoStaticFig
    /\ filtered = DataFrame(<<>>, <<>>)
    /\ interactive_fig = go_Figure
    /\ display_df = DataFrame(<<>>, <<>>)
    /\ first_render = NoRender

Run ==
    /\ pc = "input"
    /\ Ran(data, year_range, show_revenue, show_share, show_actual, pct_mode)
    /\ UNCHANGED first_render

NextInputs == Run

SpecInputs == InitInputs /\ [][NextInputs]_vars

----------------------------------------------------------------------------
(* Vocabulary of the properties *)

Done == pc # "input"

\* The series a trace of the plotly chart shows, by the trace's name
SeriesOf(name) ==
    CASE name = "WNBA Revenue"               -> "revenue"
      [] name = "50% Share (NBA-equivalent)" -> "equalShare"
      [] name = "Actual WNBA Player Salary"  -> "actual"

\* The table column a series is read from
ColumnOf(series) ==
    CASE series = "revenue"    -> "WNBA Revenue"
      [] series = "equalShare" -> "50% Share (NBA-equivalent)"
      [] series = "actual"     -> "Actual Player Salary"

\* The fixed draw order: revenue behind, equalShare, actual in front
DrawRank(series) ==
    CASE series = "revenue"    -> 1
      [] series = "equalShare" -> 2
      [] series = "actual"     -> 3

Traces == interactive_fig.data

HasSeries(series) ==
    \E t \in DOMAIN Traces : SeriesOf(Traces[t].name) = series

RECURSIVE SumLen(_, _)
SumLen(ts, n) == IF n = 0 THEN 0 ELSE Len(ts[n].y) + SumLen(ts, n - 1)

\* The number of bars of the plotly chart: one per trace and row
BarCount == SumLen(Traces, Len(Traces))

InRange(y) == year_range[1] <= y /\ y <= year_range[2]

----------------------------------------------------------------------------
(* C1: in every render, whatever the toggles and the year range, the bar   *)
(* series of the plotly chart come in the order revenue, equalShare,       *)
(* actual (a later trace always has a higher draw rank than an earlier     *)
(* one, so hiding a series never reorders the others); the three bar       *)
(* containers of the static chart are revenue, equalShare, actual with     *)
(* zorder 1, 2, 3.                                                         *)
C1_DrawOrder ==
    Done =>
      /\ \A i, j \in DOMAIN Traces :
            i < j => DrawRank(SeriesOf(Traces[i].name))
                       < DrawRank(SeriesOf(Traces[j].name))
      /\ Len(static_fig.bars) = 3
      /\ \A b \in 1..3 :
            /\ DrawRank(static_fig.bars[b].series) = b
            /\ static_fig.bars[b].zorder = b

\* A rerun with the middle series hidden and the other two drawn.
C1_Witness ==
    /\ pc = "rerun"
    /\ ~show_share /\ show_revenue /\ show_actual /\ ~pct_mode
    /\ Len(Traces) = 2
    /\ Len(filtered.rows) > 0

(* C2: with pct_mode on, every emitted value of every emitted series is    *)
(* 100 * value / revenue of its row, and is 0 for a row whose revenue is   *)
(* 0 (never inf or nan).                                                   *)
C2_PercentOrZero ==
    (Done /\ pct_mode) =>
      \A t \in DOMAIN Traces : \A i \in DOMAIN Traces[t].y :
        LET row   == filtered.rows[i]
            v     == row[ColumnOf(SeriesOf(Traces[t].name))]
            total == row["WNBA Revenue"]
            y     == Traces[t].y[i]
        IN  /\ IsFinite(y)
            /\ IF total = 0 THEN y.n = 0
                ELSE y.n * total = 100 * v * y.d

(* C3 as claimed: a series has a trace in the plotly chart exactly when    *)
(* its toggle is on, in absolute and in percentage mode alike.             *)
C3_SeriesIffToggle ==
    Done =>
      /\ HasSeries("revenue") <=> show_revenue
      /\ HasSeries("equalShare") <=> show_share
      /\ HasSeries("actual") <=> show_actual

(* C3 as amended: equalShare and actual have a trace exactly when their    *)
(* toggle is on; revenue has one exactly when its toggle is on and         *)
(* pct_mode is off (the percentage view never draws revenue); no series    *)
(* has two traces.                                                         *)
C3_SeriesIffToggleRevenueAbsoluteOnly ==
    Done =>
      /\ HasSeries("revenue") <=> (show_revenue /\ ~pct_mode)
      /\ HasSeries("equalShare") <=> show_share
      /\ HasSeries("actual") <=> show_actual
      /\ \A i, j \in DOMAIN Traces :
            Traces[i].name = Traces[j].name => i = j

\* The percentage view with the revenue toggle on: no revenue trace.
C3_Witness ==
    /\ pc = "rerun"
    /\ pct_mode /\ show_revenue /\ show_share
    /\ ~HasSeries("revenue")
    /\ HasSeries("equalShare")

(* C4 as claimed: when the year range selects no row of the table, the     *)
(* run completes and the plotly chart has zero bars and zero annotations.  *)
C4_EmptyRangeNoBarsNoAnnotations ==
    (Done /\ \A i \in DOMAIN data.rows : ~InRange(data.rows[i]["Year"])) =>
      /\ BarCount = 0
      /\ Len(interactive_fig.layout.annotations) = 0

(* C4 as amended: when the year range selects no row of the table, the     *)
(* run completes, the filtered table is empty, the plotly chart has zero   *)
(* bars, and its only annotation is the fixed source footer, which has no  *)
(* arrow.                                                                  *)
C4_EmptyRangeNoBarsFooterOnly ==
    (Done /\ \A i \in DOMAIN data.rows : ~InRange(data.rows[i]["Year"])) =>
      /\ Len(filtered.rows) = 0
      /\ BarCount = 0
      /\ Len(interactive_fig.layout.annotations) = 1
      /\ ~interactive_fig.layout.annotations[1].showarrow

\* A run on a non-empty table with the range ends crossed and a series on.
C4_Witness ==
    /\ pc = "served"
    /\ year_range[1] > year_range[2]
    /\ Len(data.rows) > 0
    /\ show_share
    /\ Len(Traces) > 0
    /\ BarCount = 0

(* C5: the filtered table holds exactly the rows of the table whose year   *)
(* lies in the closed range, each once, in ascending year order, with the  *)
(* same columns and values; for [2020, 2022] these are the rows of 2020,   *)
(* 2021, 2022 in that order.                                               *)
C5_FilterExact ==
    Done =>
      /\ filtered.columns = data.columns
      /\ \A i \in DOMAIN filtered.rows :
            /\ InRange(filtered.rows[i]["Year"])
            /\ \E k \in DOMAIN data.rows : data.rows[k] = filtered.rows[i]
      /\ \A k \in DOMAIN data.rows :
            InRange(data.rows[k]["Year"]) =>
              Cardinality({ i \in DOMAIN filtered.rows :
                              filtered.rows[i] = data.rows[k] }) = 1
      /\ \A i, j \in DOMAIN filtered.rows :
            i < j => filtered.rows[i]["Year"] < filtered.rows[j]["Year"]
      /\ year_range = <<2020, 2022>> =>
            /\ Col(filtered, "Year") = <<2020, 2021, 2022>>
            /\ Col(filtered, "WNBA Revenue") = <<120, 142, 170>>
            /\ Col(filtered, "50% Share (NBA-equivalent)") = <<57, 68, 82>>
            /\ Col(filtered, "Actual Player Salary") = <<12, 17, 18>>

\* The slider moved to (2020, 2022).
C5_Witness ==
    /\ pc = "rerun"
    /\ year_range = <<2020, 2022>>
    /\ Len(filtered.rows) = 3

(* C6: the plotly chart of the latest render is a function of the current  *)
(* controls and the sample table only: it is the chart a single run on     *)
(* the sample table with the current controls builds, whatever control     *)
(* changes came before; and whenever the controls are back at the values   *)
(* the page was first served with, the chart is the one first served.      *)
C6_RenderDependsOnViewOptionsOnly ==
    Done =>
      /\ interactive_fig =
            create_interactive_chart(FilterYears(SampleData, year_range),
                                     show_revenue, show_share, show_actual,
                                     pct_mode)
      /\ ViewOptions = first_render.opts =>
            interactive_fig = first_render.fig

\* The controls changed and then brought back to their first values.
C6_Witness ==
    /\ pc = "rerun"
    /\ ViewOptions = first_render.opts
    /\ Len(Traces) = 3

(* C7: no render changes the module-level table: after any sequence of     *)
(* control changes and reruns it has its 4 columns and its 7 rows with     *)
(* their original values, although the raw-data table of the run carries   *)
(* the derived column.                                                     *)
C7_DatasetUnchanged ==
    Done =>
      /\ data.columns = <<"Year", "WNBA Revenue",
                           "50% Share (NBA-equivalent)",
                           "Actual Player Salary">>
      /\ Len(data.rows) = 7
      /\ \A i \in DOMAIN data.rows :
            DOMAIN data.rows[i] = {"Year", "WNBA Revenue",
                                   "50% Share (NBA-equivalent)",
                                   "Actual Player Salary"}
      /\ Col(data, "Year") = <<2019, 2020, 2021, 2022, 2023, 2024, 2025>>
      /\ Col(data, "WNBA Revenue") = <<95, 120, 142, 170, 193, 220, 295>>
      /\ Col(data, "50% Share (NBA-equivalent)")
            = <<45, 57, 68, 82, 93, 105, 143>>
      /\ Col(data, "Actual Player Salary") = <<12, 12, 17, 18, 18, 18, 18>>

\* A rerun whose raw-data table has the derived column on all seven rows.
C7_Witness ==
    /\ pc = "rerun"
    /\ Len(display_df.rows) = 7
    /\ Len(display_df.columns) = 5
    /\ display_df.columns[5] = "Revenue Share %"
    /\ display_df.rows[1]["Revenue Share %"] = Frac(126, 10)

(* C8: every row of the table and of every filtered table satisfies        *)
(* 0 <= actual salary <= 50% share <= revenue, and the years of each table *)
(* are strictly ascending (hence unique).                                  *)
C8_RowInvariant ==
    Done =>
      \A df \in {data, filtered} :
        /\ \A i \in DOMAIN df.rows :
              /\ 0 <= df.rows[i]["Actual Player Salary"]
              /\ df.rows[i]["Actual Player Salary"]
                    <= df.rows[i]["50% Share (NBA-equivalent)"]
              /\ df.rows[i]["50% Share (NBA-equivalent)"]
                    <= df.rows[i]["WNBA Revenue"]
        /\ \A i, j \in DOMAIN df.rows :
              i < j => df.rows[i]["Year"] < df.rows[j]["Year"]

\* A rerun whose filtered table is a proper part of the table, from 2019.
C8_Witness ==
    /\ pc = "rerun"
    /\ Len(filtered.rows) >= 2
    /\ Len(filtered.rows) < Len(data.rows)
    /\ filtered.rows[1]["Year"] = 2019

\* In the static chart the three bars of every row start at the same left
\* edge and are 0.55, 0.40 and 0.20 of a slot wide.
StaticLeftAligned ==
    /\ Len(static_fig.bars) = 3
    /\ \A b \in 1..3 : Len(static_fig.bars[b].patches) = Len(data.rows)
    /\ \A i \in DOMAIN data.rows :
          /\ \A b \in 1..3 :
                static_fig.bars[b].patches[i].left
                  = static_fig.bars[1].patches[i].left
          /\ static_fig.bars[1].patches[i].width * 100 = 55 * SlotUnits
          /\ static_fig.bars[2].patches[i].width * 100 = 40 * SlotUnits
          /\ static_fig.bars[3].patches[i].width * 100 = 20 * SlotUnits

(* C9 as claimed: for every row drawn the bars of the series have the same *)
(* left edge, in the static chart and in the plotly chart.                 *)
C9_LeftAlignedInBothCharts ==
    Done =>
      /\ StaticLeftAligned
      /\ \A t, u \in DOMAIN Traces : \A i \in DOMAIN Traces[t].x :
            GroupedBar(interactive_fig, t, i).left
              = GroupedBar(interactive_fig, u, i).left

(* C9 as amended: the bars of a row have the same left edge, with widths   *)
(* 0.55, 0.40, 0.20, in the static chart only; the plotly chart asks for   *)
(* barmode "group" and sets no bar width or offset, so the bars of a row   *)
(* are equally wide and stand side by side, each starting where the        *)
(* previous trace's bar ends.                                              *)
C9_LeftAlignedInStaticChartOnly ==
    Done =>
      /\ StaticLeftAligned
      /\ interactive_fig.layout.barmode = "group"
      /\ \A t \in DOMAIN Traces :
            DOMAIN Traces[t] \cap {"width", "offset"} = {}
      /\ \A t, u \in DOMAIN Traces : \A i \in DOMAIN Traces[t].x :
            u = t + 1 =>
              /\ GroupedBar(interactive_fig, u, i).left
                    = GroupedBar(interactive_fig, t, i).left
                      + GroupedBar(interactive_fig, t, i).width
              /\ GroupedBar(interactive_fig, u, i).width
                    = GroupedBar(interactive_fig, t, i).width

\* A rerun that draws all three series for at least two rows.
C9_Witness ==
    /\ pc = "rerun"
    /\ Len(Traces) = 3
    /\ Len(filtered.rows) >= 2
    /\ Len(static_fig.bars[1].patches) = 7

Sign(v) == IF v < 0 THEN -1 ELSE IF v > 0 THEN 1 ELSE 0

\* Three arrows, pointing at revenue, equalShare, actual in that order.
ThreeArrowsInSeriesOrder ==
    /\ Len(static_fig.annotations) = 3
    /\ \A a \in 1..3 : DrawRank(static_fig.annotations[a].points_at) = a

(* C10 as claimed: the static chart has three arrows, one per series in    *)
(* the order revenue, equalShare, actual, and consecutive arrows never     *)
(* curve with the same sign.                                               *)
C10_CurvatureAlternates ==
    Done =>
      /\ ThreeArrowsInSeriesOrder
      /\ \A a \in 1..2 :
            Sign(static_fig.annotations[a].rad)
              # Sign(static_fig.annotations[a + 1].rad)

(* C10 as amended: the static chart has three arrows, one per series in    *)
(* the order revenue, equalShare, actual; the first curves negatively      *)
(* (rad -0.3) and both the second and the third curve positively (rad 0.4  *)
(* and 0.3), so the sign changes only between the first and the second.    *)
C10_CurvatureSigns ==
    Done =>
      /\ ThreeArrowsInSeriesOrder
      /\ static_fig.annotations[1].rad = -3
      /\ static_fig.annotations[2].rad = 4
      /\ static_fig.annotations[3].rad = 3

\* The static chart drawn again by a rerun.
C10_Witness ==
    /\ pc = "rerun"
    /\ Len(static_fig.annotations) = 3
    /\ Len(static_fig.bars) = 3
    /\ static_fig.annotations[3].color = "#b37540"

============================================================================
